---- MODULE Spec2Model ----
(***************************************************************************)
(* Model of wrapper/model/ExegolContainer.py: the handle of an existing    *)
(* Exegol container (status queries, start/stop, spawnShell, exec,         *)
(* formatShellCommand, remove and the reclamation of the private           *)
(* workspace volume).                                                      *)
(*                                                                         *)
(* Python strings are sequences of one-character strings, so that          *)
(* lower(), startswith(), join() and base64 are computed, not assumed.     *)
(* Every method is an operator from a "world" record to a world record;    *)
(* a raised exception is the field exc, and it short-circuits the rest of  *)
(* the method as it does in Python.                                        *)
(***************************************************************************)
EXTENDS Integers, Sequences, FiniteSets, TLC

\* ------------------------------------------------------------------ bounds
MaxFiles == 1        \* entries the private volume directory may hold
MaxChunks == 2       \* chunks an exec output stream may yield
MaxTokens == 3       \* tokens of a command given to formatShellCommand
MaxDevices == 1      \* shared devices of a container's configuration

\* ----------------------------------------------------------------- strings
UpperChars == <<"A","B","C","D","E","F","G","H","I","J","K","L","M","N","O","P","Q","R","S","T","U","V","W","X","Y","Z">>

LowerChars == <<"a","b","c","d","e","f","g","h","i","j","k","l","m","n","o","p","q","r","s","t","u","v","w","x","y","z">>

\* str.lower() on one character
LowerChar(c) ==
    IF \E i \in 1..Len(UpperChars) : UpperChars[i] = c
    THEN LowerChars[CHOOSE i \in 1..Len(UpperChars) : UpperChars[i] = c]
    ELSE c

\* str.lower()
Lower(s) == [i \in 1..Len(s) |-> LowerChar(s[i])]

\* Mutant of StartsWith: compares the whole path with the prefix
StartsWithWhole(s, prefix) == s = prefix

\* str.startswith(prefix)
StartsWith(s, prefix) ==
    /\ Len(prefix) <= Len(s)
    /\ SubSeq(s, 1, Len(prefix)) = prefix

\* "running", "exited", "unknown": the literals of the status code
STR_running == <<"r","u","n","n","i","n","g">>

STR_exited == <<"e","x","i","t","e","d">>

STR_unknown == <<"u","n","k","n","o","w","n">>

\* "[red]:question:[/red] Unknown"
TXT_Unknown == <<"[","r","e","d","]",":","q","u","e","s","t","i","o","n",":","[","/","r","e","d","]"," ","U","n","k","n","o","w","n">>

\* ":stop_sign: [red]Stopped"
TXT_Stopped == <<":","s","t","o","p","_","s","i","g","n",":"," ","[","r","e","d","]","S","t","o","p","p","e","d">>

\* "[green]:play_button: [green]Running"
TXT_Running == <<"[","g","r","e","e","n","]",":","p","l","a","y","_","b","u","t","t","o","n",":"," ","[","g","r","e","e","n","]","R","u","n","n","i","n","g">>

\* '/wsl/' and '\\wsl\\'
WSL_slash == <<"/","w","s","l","/">>

WSL_backslash == <<"\\","w","s","l","\\">>

\* Raw statuses the docker daemon (or a test double) may report
STR_paused == <<"p","a","u","s","e","d">>

STR_Running_cap == <<"R","u","n","n","i","n","g">>

STR_PAUSED_cap == <<"P","A","U","S","E","D">>

RawStatuses == {STR_running, STR_exited, STR_paused, STR_Running_cap, STR_PAUSED_cap}

\* ------------------------------------------------------- bytes and base64
\* The printable ASCII characters, code points 32..126 in order (code 96 is
\* written as a named symbol: the lexer accepts no grave accent in a string)
AsciiChars == <<" ","!","\"","#","$","%","&","'","(",")","*","+",",","-",".","/","0","1","2","3","4","5","6","7","8","9",":",";","<","=",">","?","@","A","B","C","D","E","F","G","H","I","J","K","L","M","N","O","P","Q","R","S","T","U","V","W","X","Y","Z","[","\\","]","^","_","<backtick>","a","b","c","d","e","f","g","h","i","j","k","l","m","n","o","p","q","r","s","t","u","v","w","x","y","z","{","|","}","~">>

\* The base64 alphabet of base64.b64encode
B64Chars == <<"A","B","C","D","E","F","G","H","I","J","K","L","M","N","O","P","Q","R","S","T","U","V","W","X","Y","Z","a","b","c","d","e","f","g","h","i","j","k","l","m","n","o","p","q","r","s","t","u","v","w","x","y","z","0","1","2","3","4","5","6","7","8","9","+","/">>

\* ord() of a printable ASCII character
Ord(c) == 31 + (CHOOSE i \in 1..Len(AsciiChars) : AsciiChars[i] = c)

\* str.encode('utf-8') of an ASCII string: one byte per character
EncodeUtf8(s) == [i \in 1..Len(s) |-> Ord(s[i])]

\* bytes.decode('utf-8') of printable ASCII bytes (callers test Utf8Valid first)
DecodeUtf8(bs) == [i \in 1..Len(bs) |-> AsciiChars[bs[i] - 31]]

RECURSIVE B64Encode(_)
\* base64.b64encode(bytes).decode('utf-8'): 3 bytes -> 4 symbols, '=' padding
B64Encode(bs) ==
    IF Len(bs) = 0 THEN <<>>
    ELSE IF Len(bs) = 1 THEN
        << B64Chars[(bs[1] \div 4) + 1],
           B64Chars[((bs[1] % 4) * 16) + 1], "=", "=" >>
    ELSE IF Len(bs) = 2 THEN
        << B64Chars[(bs[1] \div 4) + 1],
           B64Chars[((bs[1] % 4) * 16 + (bs[2] \div 16)) + 1],
           B64Chars[((bs[2] % 16) * 4) + 1], "=" >>
    ELSE
        << B64Chars[(bs[1] \div 4) + 1],
           B64Chars[((bs[1] % 4) * 16 + (bs[2] \div 16)) + 1],
           B64Chars[((bs[2] % 16) * 4 + (bs[3] \div 64)) + 1],
           B64Chars[(bs[3] % 64) + 1] >>
        \o B64Encode(SubSeq(bs, 4, Len(bs)))

\* The value of a symbol of the base64 alphabet
B64Index(c) == (CHOOSE i \in 1..Len(B64Chars) : B64Chars[i] = c) - 1

\* What base64 -d accepts as a whole: groups of four symbols of the alphabet,
\* the last group ending with at most two '='
B64Valid(s) ==
    /\ Len(s) % 4 = 0
    /\ \A i \in 1..Len(s) :
          \/ \E k \in 1..Len(B64Chars) : B64Chars[k] = s[i]
          \/ /\ s[i] = "="
             /\ i >= Len(s) - 1
             /\ s[Len(s)] = "="

RECURSIVE B64Decode(_)
\* base64 -d (the decoding the command string asks the container's shell
\* for): 4 symbols -> 3 bytes, '=' padding dropped
B64Decode(s) ==
    IF Len(s) = 0 THEN <<>>
    ELSE IF s[3] = "=" THEN
        << B64Index(s[1]) * 4 + (B64Index(s[2]) \div 16) >>
    ELSE IF s[4] = "=" THEN
        << B64Index(s[1]) * 4 + (B64Index(s[2]) \div 16),
           (B64Index(s[2]) % 16) * 16 + (B64Index(s[3]) \div 4) >>
    ELSE
        << B64Index(s[1]) * 4 + (B64Index(s[2]) \div 16),
           (B64Index(s[2]) % 16) * 16 + (B64Index(s[3]) \div 4),
           (B64Index(s[3]) % 4) * 64 + B64Index(s[4]) >>
        \o B64Decode(SubSeq(s, 5, Len(s)))

RECURSIVE Join(_)
\* ' '.join(command)
Join(tokens) ==
    IF Len(tokens) = 0 THEN <<>>
    ELSE IF Len(tokens) = 1 THEN tokens[1]
    ELSE tokens[1] \o <<" ">> \o Join(Tail(tokens))

\* 'zsh -c "source /opt/.zsh_aliases; eval $(echo ' and ' | base64 -d)"'
ZSH_prefix == <<"z","s","h"," ","-","c"," ","\"","s","o","u","r","c","e"," ","/","o","p","t","/",".","z","s","h","_","a","l","i","a","s","e","s",";"," ","e","v","a","l"," ","$","(","e","c","h","o"," ">>

ZSH_suffix == <<" ","|"," ","b","a","s","e","6","4"," ","-","d",")","\"">>

\* Mutant of formatShellCommand: the joined command is embedded as it is
formatShellCommandPlain(command) == ZSH_prefix \o Join(command) \o ZSH_suffix

\* formatShellCommand: the returned command string
formatShellCommand(command) ==
    LET str_cmd == Join(command)
        cmd_b64 == B64Encode(EncodeUtf8(str_cmd))
    IN ZSH_prefix \o cmd_b64 \o ZSH_suffix

\* ------------------------------------------------------------------ state
VARIABLES
    rt,        \* the docker daemon's view of the container: exists, attrs
    attrs,     \* attrs[h]: docker_container.attrs as last loaded by handle h
    fs,        \* the private volume directory on the host: exists, entries
    config,    \* self.config: private volume path, host workspace path, GUI flag,
               \* shared devices
    op,        \* the last handle operation called, with its arguments
    pre,       \* rt and fs as they were when that operation was called
    calls,     \* runtime requests that operation issued, with their outcomes
    fscalls,   \* filesystem requests that operation issued, with their outcomes
    hostcmds,  \* command lines that operation gave to os.system, in order
    entered,   \* the handle's own methods that operation entered, in order
    prompts,   \* confirmations that operation asked of the operator, in order
    log,       \* logger / console lines that operation emitted, in order
    exc,       \* the exception that operation raised to its caller, or "none"
    ret        \* what that operation returned (<<>> when it returns None)

vars == <<rt, attrs, fs, config, op, pre, calls, fscalls, hostcmds, entered, prompts, log,
          exc, ret>>

\* Two handles wrap the same docker container
Handles == {"h1", "h2"}

Files == 1..MaxFiles

\* attrs: the "State" entry may be missing, and so may its "Status" entry
EmptyDict == [has |-> FALSE, Status |-> <<>>]

StateDict(status) == [has |-> TRUE, Status |-> status]

NoStateAttrs == [hasState |-> FALSE, State |-> EmptyDict]

Attrs(dict) == [hasState |-> TRUE, State |-> dict]

AllAttrs == {NoStateAttrs, Attrs(EmptyDict)} \cup {Attrs(StateDict(s)) : s \in RawStatuses}

\* ------------------------------------------------- the runtime collaborator
\* A request to the docker SDK object self.__container
Req(name) ==
    [req |-> name, timeout |-> 0, cmd |-> <<>>, detach |-> FALSE, stream |-> FALSE,
     outcome |-> "ok"]

\* The operation enters one of the handle's own methods
Enter(w, method) ==
    [w EXCEPT !.entered = Append(@, [method |-> method, ncalls |-> Len(w.calls)])]

Raised(w) == w.exc # "none"

\* F(e), with e evaluated once (Python evaluates an argument once)
Bind(e, F(_)) == CHOOSE y \in { F(x) : x \in {e} } : TRUE

Log(w, level, msg) == [w EXCEPT !.log = Append(@, [level |-> level, msg |-> msg, text |-> <<>>])]

LogText(w, level, msg, text) == [w EXCEPT !.log = Append(@, [level |-> level, msg |-> msg, text |-> text])]

\* What a request that the daemon accepts does to the container
RtEffect(w, h, rq) ==
    CASE rq.req = "reload" -> [w EXCEPT !.attrs[h] = w.rt.attrs]
      [] rq.req = "start"  -> [w EXCEPT !.rt.attrs = Attrs(StateDict(STR_running))]
      [] rq.req = "stop"   -> [w EXCEPT !.rt.attrs = Attrs(StateDict(STR_exited))]
      [] rq.req = "remove" -> [w EXCEPT !.rt.exists = FALSE]
      [] OTHER             -> w

\* One call on self.__container. The n-th call of an operation finds the
\* container deleted out-of-band if the environment deletes it just before
\* (env.vanishAt = n), fails with docker.errors.APIError if the daemon fails
\* there (env.faultAt = n), raises docker.errors.NotFound if the container
\* does not exist, and otherwise takes effect.
RtCall(w, h, rq) ==
    LET n == Len(w.calls) + 1
        w1 == [w EXCEPT !.rt.exists = IF w.env.vanishAt = n THEN FALSE ELSE @]
        outcome == IF w.env.faultAt = n THEN "APIError"
                   ELSE IF ~w1.rt.exists THEN "NotFound"
                   ELSE "ok"
        w2 == [w1 EXCEPT !.calls = Append(@, [rq EXCEPT !.outcome = outcome])]
    IN IF outcome # "ok" THEN [w2 EXCEPT !.exc = outcome]
       ELSE RtEffect(w2, h, rq)

\* ------------------------------------------------------------ status queries
\* Mutant of getState: reads the attributes the handle holds, without reload
getStateCached(w, h) ==
    [w |-> w, v |-> IF ~w.attrs[h].hasState THEN EmptyDict ELSE w.attrs[h].State]

\* __getState: reload, then attrs.get("State", {})
getState(w, h) ==
    Bind(RtCall(w, h, Req("reload")),
         LAMBDA w1 : [w |-> w1,
                      v |-> IF Raised(w1) \/ ~w1.attrs[h].hasState THEN EmptyDict
                            ELSE w1.attrs[h].State])

\* getRawStatus: __getState().get("Status", "unknown")
getRawStatus(w, h) ==
    Bind(getState(w, h),
         LAMBDA r : [w |-> r.w, v |-> IF r.v.has THEN r.v.Status ELSE STR_unknown])

\* Mutant of TextOfStatus: compares the raw status without lower()
TextOfStatusCaseSensitive(raw) ==
    IF raw = STR_unknown THEN TXT_Unknown
    ELSE IF raw = STR_exited THEN TXT_Stopped
    ELSE IF raw = STR_running THEN TXT_Running
    ELSE raw

\* The branches of getTextStatus on the raw status
TextOfStatus(raw) ==
    LET status == Lower(raw)
    IN IF status = STR_unknown THEN TXT_Unknown
       ELSE IF status = STR_exited THEN TXT_Stopped
       ELSE IF status = STR_running THEN TXT_Running
       ELSE status

\* getTextStatus
getTextStatus(w, h) ==
    Bind(getRawStatus(w, h), LAMBDA r : [w |-> r.w, v |-> TextOfStatus(r.v)])

\* Mutant of isRunning: the comparison ignores the letter case
isRunningAnyCase(w, h) ==
    Bind(getRawStatus(w, h), LAMBDA r : [w |-> r.w, v |-> (Lower(r.v) = STR_running)])

\* isRunning: getRawStatus() == "running"
isRunning(w, h) ==
    Bind(getRawStatus(w, h), LAMBDA r : [w |-> r.w, v |-> (r.v = STR_running)])

\* ------------------------------------------------------------- start / stop
\* Mutant of start: issues the start request without looking at the status
startUnconditional(w, h) ==
    RtCall(Log(Enter(w, "start"), "info", "Starting container"), h, Req("start"))

\* start
start(w, h) ==
    Bind(isRunning(Enter(w, "start"), h),
         LAMBDA r : IF Raised(r.w) THEN r.w
                    ELSE IF ~r.v
                    THEN RtCall(Log(r.w, "info", "Starting container"), h, Req("start"))
                    ELSE r.w)

\* stop(timeout)
stop(w, h, timeout) ==
    Bind(isRunning(Enter(w, "stop"), h),
         LAMBDA r : IF Raised(r.w) THEN r.w
                    ELSE IF r.v
                    THEN RtCall(Log(Log(r.w, "info", "Stopping container"),
                                    "status", "Waiting to stop"),
                                h, [Req("stop") EXCEPT !.timeout = timeout])
                    ELSE r.w)

\* --------------------------------------------------------------- spawnShell
\* docker_container.id, docker_container.name and the template's hostname
\* of the one container the handles stand for: "c0ffee", "lab", "exegol-lab"
ContainerId == <<"c","0","f","f","e","e">>

ContainerName == <<"l","a","b">>

ContainerHostname == <<"e","x","e","g","o","l","-","l","a","b">>

\* 'xhost +local:' and ' > /dev/null'
XHOST_prefix == <<"x","h","o","s","t"," ","+","l","o","c","a","l",":">>

XHOST_suffix == <<" ",">"," ","/","d","e","v","/","n","u","l","l">>

\* 'docker exec -ti '
DOCKER_EXEC == <<"d","o","c","k","e","r"," ","e","x","e","c"," ","-","t","i"," ">>

\* ParametersManager().shell: "zsh" or "bash"
Shells == { <<"z","s","h">>, <<"b","a","s","h">> }

\* getFullId
getFullId(h) == ContainerId

\* device.split(':')[0]
SplitFirst(s, sep) ==
    IF \E i \in 1..Len(s) : s[i] = sep
    THEN SubSeq(s, 1, (CHOOSE i \in 1..Len(s) :
                          s[i] = sep /\ \A j \in 1..(i - 1) : s[j] # sep) - 1)
    ELSE s

\* os.system(command): the command line is run on the host; its exit status
\* is returned and the caller drops it
System(w, command) == [w EXCEPT !.hostcmds = Append(@, command)]

RECURSIVE logDevices(_, _)
\* for device in self.config.getDevices(): logger.info(...)
logDevices(w, devices) ==
    IF devices = <<>> THEN w
    ELSE logDevices(LogText(w, "info", "Shared host device", SplitFirst(Head(devices), ":")),
                    Tail(devices))

\* spawnShell, lines 93-96: the log lines before the host commands
spawnShellLog(w, cfg) ==
    LogText(logDevices(LogText(w, "info", "Location of the exegol workspace on the host",
                               cfg.hostWorkspacePath),
                       cfg.devices),
            "success", "Opening shell in Exegol", ContainerName)

\* Mutant of spawnShell: the X11 access is granted whatever the configuration
spawnShellAlwaysGranting(w, h, cfg, shell) ==
    Bind(spawnShellLog(Enter(w, "spawnShell"), cfg),
         LAMBDA w1 :
            System(System(LogText(w1, "debug", "Adding xhost ACL", ContainerHostname),
                          XHOST_prefix \o ContainerHostname \o XHOST_suffix),
                   DOCKER_EXEC \o getFullId(h) \o <<" ">> \o shell))

\* spawnShell
spawnShell(w, h, cfg, shell) ==
    Bind(spawnShellLog(Enter(w, "spawnShell"), cfg),
         LAMBDA w1 :
            System(IF cfg.gui
                   THEN System(LogText(w1, "debug", "Adding xhost ACL", ContainerHostname),
                               XHOST_prefix \o ContainerHostname \o XHOST_suffix)
                   ELSE w1,
                   DOCKER_EXEC \o getFullId(h) \o <<" ">> \o shell))

\* ------------------------------------------------------------------- remove
\* timeout of stop() by default (line 84) and as remove() calls it (line 143)
DefaultStopTimeout == 10

RemoveStopTimeout == 2

\* Confirm.ask(..., default=False): what the operator types decides the answer
ConfirmAsk(typed, default) ==
    IF typed = "y" THEN TRUE
    ELSE IF typed = "n" THEN FALSE
    ELSE default

\* PermissionError is caught by the first except clause, every other
\* Exception by the second
IsException(e) == e \in {"PermissionError", "FileNotFoundError", "OSError"}

\* os.listdir(volume_path): the exception it raises, or "none"
listdirError(w) ==
    IF w.env.listFault # "none" THEN w.env.listFault
    ELSE IF ~w.fs.exists THEN "FileNotFoundError"
    ELSE "none"

FsCall(w, call, path, err) ==
    [w EXCEPT !.fscalls = Append(@, [call |-> call, path |-> path,
                                     outcome |-> IF err # "none" THEN err ELSE "ok"])]

\* shutil.rmtree(volume_path), then the success line (lines 169-170). A
\* failing rmtree may already have deleted some entries (those outside
\* env.survivors).
rmtree(w, volume_path) ==
    IF w.env.rmFault # "none"
    THEN [FsCall(w, "rmtree", volume_path, w.env.rmFault)
            EXCEPT !.fs.entries = @ \cap w.env.survivors, !.exc = w.env.rmFault]
    ELSE Log([FsCall(w, "rmtree", volume_path, "none")
                EXCEPT !.fs = [exists |-> FALSE, entries |-> {}]],
             "success", "Private workspace volume removed successfully")

\* Mutant of askThenRmtree: asks, and deletes whatever the answer
askThenRmtreeAnyway(w, volume_path) ==
    rmtree([w EXCEPT !.prompts = Append(@, [question |-> "Workspace is not empty, do you want to delete it?",
                                           default |-> FALSE,
                                           answer |-> ConfirmAsk(w.env.typed, FALSE)])],
           volume_path)

\* Confirm.ask on a non-empty directory (lines 162-168), then rmtree
askThenRmtree(w, volume_path) ==
    LET answer == ConfirmAsk(w.env.typed, FALSE)
        asked == [w EXCEPT !.prompts = Append(@, [question |-> "Workspace is not empty, do you want to delete it?",
                                                 default |-> FALSE,
                                                 answer |-> answer])]
    IN IF ~answer THEN asked ELSE rmtree(asked, volume_path)

\* Mutant of removeVolumeTry: deletes without looking at the listing
removeVolumeTryNoAsk(w, volume_path) ==
    LET err == listdirError(w)
        listed == FsCall(w, "listdir", volume_path, err)
    IN IF err # "none" THEN [listed EXCEPT !.exc = err]
       ELSE rmtree(listed, volume_path)

\* The try block of __removeVolume (lines 160-170)
removeVolumeTry(w, volume_path) ==
    LET err == listdirError(w)
        listed == FsCall(w, "listdir", volume_path, err)
    IN IF err # "none" THEN [listed EXCEPT !.exc = err]
       ELSE IF w.fs.entries # {} THEN askThenRmtree(listed, volume_path)
       ELSE rmtree(listed, volume_path)

\* Mutant of removeVolumeExcept: only PermissionError is caught
removeVolumeExceptPermissionOnly(w) ==
    IF w.exc = "PermissionError"
    THEN Log([w EXCEPT !.exc = "none"], "warning", "I don't have the rights to remove")
    ELSE w

\* The except clauses of __removeVolume (lines 171-174)
removeVolumeExcept(w) ==
    IF w.exc = "PermissionError"
    THEN Log([w EXCEPT !.exc = "none"], "warning", "I don't have the rights to remove")
    ELSE IF IsException(w.exc)
    THEN LogText([w EXCEPT !.exc = "none"], "error", "err", <<w.exc>>)
    ELSE w

\* Mutant of removeVolume: without a private volume, a workspace that is not
\* bridge-mounted is deleted instead
removeVolumeFallingBackToWorkspace(w, cfg) ==
    IF cfg.privateVolumePath # <<>>
    THEN Bind(removeVolumeTry(Log(Log(Enter(w, "__removeVolume"),
                                      "verbose", "Removing workspace volume"),
                                  "debug", "Removing volume"),
                              cfg.privateVolumePath),
              removeVolumeExcept)
    ELSE IF StartsWith(cfg.hostWorkspacePath, WSL_slash)
            \/ StartsWith(cfg.hostWorkspacePath, WSL_backslash)
    THEN Log(Enter(w, "__removeVolume"),
             "warning", "WSL workspace directory cannot be removed automatically")
    ELSE Bind(removeVolumeTry(Enter(w, "__removeVolume"), cfg.hostWorkspacePath),
              removeVolumeExcept)

\* __removeVolume
removeVolume(w, cfg) ==
    IF cfg.privateVolumePath # <<>>
    THEN Bind(removeVolumeTry(Log(Log(Enter(w, "__removeVolume"),
                                      "verbose", "Removing workspace volume"),
                                  "debug", "Removing volume"),
                              cfg.privateVolumePath),
              removeVolumeExcept)
    ELSE IF StartsWith(cfg.hostWorkspacePath, WSL_slash)
            \/ StartsWith(cfg.hostWorkspacePath, WSL_backslash)
    THEN Log(Enter(w, "__removeVolume"),
             "warning", "WSL workspace directory cannot be removed automatically")
    ELSE Enter(w, "__removeVolume")

\* Mutant of removeExcept: NotFound is not caught
removeExceptNothing(w) ==
    IF ~Raised(w) THEN Log(w, "success", "Container successfully removed") ELSE w

\* The try / except NotFound of remove (lines 145-150), after the request
removeExcept(w) ==
    IF ~Raised(w)
    THEN Log(w, "success", "Container successfully removed")
    ELSE IF w.exc = "NotFound"
    THEN Log([w EXCEPT !.exc = "none"], "error", "The container has already been removed")
    ELSE w

\* remove, from the deletion request on (lines 144-151)
removeRequest(w, h, cfg) ==
    Bind(removeExcept(RtCall(Log(w, "info", "Removing container"), h, Req("remove"))),
         LAMBDA w1 : IF Raised(w1) THEN w1 ELSE removeVolume(w1, cfg))

\* remove
remove(w, h, cfg) ==
    Bind(stop(Enter(w, "remove"), h, RemoveStopTimeout),
         LAMBDA w1 : IF Raised(w1) THEN w1 ELSE removeRequest(w1, h, cfg))

\* --------------------------------------------------------------------- exec
\* A chunk decodes as UTF-8 unless it holds a lone byte >= 128
Utf8Valid(bs) == \A i \in 1..Len(bs) : bs[i] < 128

\* What the i-th read of the stream gives: a chunk ("ok"), the end of the
\* stream, the operator's interrupt or a failure of the transport (env.cut)
readOutcome(w, i) ==
    IF w.env.cut.at = i THEN w.env.cut.kind
    ELSE IF i > Len(w.env.stream) THEN "end"
    ELSE "ok"

RECURSIVE consumeStreamSilent(_, _)
\* Mutant of consumeStream: the chunks are read and decoded but not forwarded
consumeStreamSilent(w0, i) ==
    Bind([w0 EXCEPT !.calls = Append(@, [Req("next") EXCEPT !.outcome = readOutcome(w0, i)])],
         LAMBDA w :
            IF readOutcome(w, i) = "KeyboardInterrupt"
            THEN Log(Log(w, "info", "Detaching process logging"),
                     "warning", "Exiting this command do NOT stop the process in the container")
            ELSE IF readOutcome(w, i) = "end"
            THEN Log(w, "success", "End of the command")
            ELSE IF readOutcome(w, i) # "ok"
            THEN [w EXCEPT !.exc = readOutcome(w, i)]
            ELSE IF ~Utf8Valid(w.env.stream[i])
            THEN [w EXCEPT !.exc = "UnicodeDecodeError"]
            ELSE consumeStreamSilent(w, i + 1))

RECURSIVE consumeStream(_, _)
\* for log in stream[1]: logger.raw(log.decode("utf-8")), inside
\* try ... except KeyboardInterrupt (lines 119-127); each read is recorded
\* after the requests, as "next".
consumeStream(w0, i) ==
    Bind([w0 EXCEPT !.calls = Append(@, [Req("next") EXCEPT !.outcome = readOutcome(w0, i)])],
         LAMBDA w :
            IF readOutcome(w, i) = "KeyboardInterrupt"
            THEN Log(Log(w, "info", "Detaching process logging"),
                     "warning", "Exiting this command do NOT stop the process in the container")
            ELSE IF readOutcome(w, i) = "end"
            THEN Log(w, "success", "End of the command")
            ELSE IF readOutcome(w, i) # "ok"
            THEN [w EXCEPT !.exc = readOutcome(w, i)]
            ELSE IF ~Utf8Valid(w.env.stream[i])
            THEN [w EXCEPT !.exc = "UnicodeDecodeError"]
            ELSE consumeStream(LogText(w, "raw", "output", DecodeUtf8(w.env.stream[i])), i + 1))

\* formatShellCommand called on the handle: its two log lines (134, 137)
\* and the returned string
formatShellCommandCall(w, command) ==
    Bind(formatShellCommand(command),
         LAMBDA cmd : [w |-> LogText(LogText(Enter(w, "formatShellCommand"),
                                             "success", "Command received", Join(command)),
                                     "debug", "Formatting zsh command", cmd),
                       v |-> cmd])

\* Mutant of execStart: the container is never started
execStartNever(w, h) ==
    Bind(isRunning(Enter(w, "exec"), h), LAMBDA r : r.w)

\* exec, lines 109-110: start the container if it is not running
execStart(w, h) ==
    Bind(isRunning(Enter(w, "exec"), h),
         LAMBDA r : IF Raised(r.w) THEN r.w
                    ELSE IF ~r.v THEN start(r.w, h)
                    ELSE r.w)

\* exec, lines 111-114: the log lines before the request
execLog(w, str_cmd, cmd) ==
    LogText(LogText(IF w.env.quiet
                    THEN Log(Log(w, "info", "Executing command on Exegol"),
                             "info", "Hint: use verbose mode to see command output (-v).")
                    ELSE Log(w, "info", "Executing command on Exegol"),
                    "success", "Command received", str_cmd),
            "debug", "Formatting zsh command", cmd)

\* Mutant of execRun: a failure of the request or of the stream is caught
execRunSwallowing(w, h, cmd, as_daemon) ==
    Bind(RtCall(w, h, [Req("exec_run") EXCEPT !.cmd = cmd, !.detach = as_daemon,
                                              !.stream = ~as_daemon]),
         LAMBDA w1 : IF Raised(w1) THEN [w1 EXCEPT !.exc = "none"]
                     ELSE IF as_daemon
                     THEN Log(w1, "success", "Command successfully executed in background")
                     ELSE [consumeStream(w1, 1) EXCEPT !.exc = "none"])

\* Mutant of execRun: an interrupted exec stops the container
execRunStoppingOnInterrupt(w, h, cmd, as_daemon) ==
    Bind(RtCall(w, h, [Req("exec_run") EXCEPT !.cmd = cmd, !.detach = as_daemon,
                                              !.stream = ~as_daemon]),
         LAMBDA w1 : IF Raised(w1) THEN w1
                     ELSE IF as_daemon
                     THEN Log(w1, "success", "Command successfully executed in background")
                     ELSE Bind(consumeStream(w1, 1),
                               LAMBDA w2 :
                                  IF w2.calls[Len(w2.calls)].outcome = "KeyboardInterrupt"
                                  THEN RtCall(w2, h, [Req("stop") EXCEPT
                                                        !.timeout = DefaultStopTimeout])
                                  ELSE w2))

\* Mutant of execRun: the output is streamed and read in both modes
execRunAlwaysStreaming(w, h, cmd, as_daemon) ==
    Bind(RtCall(w, h, [Req("exec_run") EXCEPT !.cmd = cmd, !.detach = as_daemon,
                                              !.stream = TRUE]),
         LAMBDA w1 : IF Raised(w1) THEN w1
                     ELSE IF as_daemon
                     THEN Log(consumeStream(w1, 1), "success",
                              "Command successfully executed in background")
                     ELSE consumeStream(w1, 1))

\* exec, lines 115-127: the request and what follows it
execRun(w, h, cmd, as_daemon) ==
    Bind(RtCall(w, h, [Req("exec_run") EXCEPT !.cmd = cmd, !.detach = as_daemon,
                                              !.stream = ~as_daemon]),
         LAMBDA w1 : IF Raised(w1) THEN w1
                     ELSE IF as_daemon
                     THEN Log(w1, "success", "Command successfully executed in background")
                     ELSE consumeStream(w1, 1))

\* exec(command, as_daemon)
exec(w, h, command, as_daemon) ==
    Bind(execStart(w, h),
         LAMBDA w1 : IF Raised(w1) THEN w1
                     ELSE Bind(formatShellCommand(command),
                               LAMBDA cmd : execRun(execLog(w1, Join(command), cmd),
                                                    h, cmd, as_daemon)))

\* ------------------------------------------------------------- environment
\* Host workspace paths: "/wsl/p", "\\wsl\\p", "/wsl" (no separator), "/home"
PATH_wsl_p == <<"/","w","s","l","/","p">>

PATH_bwsl_p == <<"\\","w","s","l","\\","p">>

PATH_wsl == <<"/","w","s","l">>

PATH_home == <<"/","h","o","m","e">>

\* A private volume path: "/priv"
PATH_priv == <<"/","p","r","i","v">>

\* Shared device specifications: "/dev/a:/dev/b" and "/dev/c" (no separator)
DeviceSpecs == { <<"/","d","e","v","/","a",":","/","d","e","v","/","b">>,
                 <<"/","d","e","v","/","c">> }

DeviceLists == UNION { [1..n -> DeviceSpecs] : n \in 0..MaxDevices }

\* ContainerConfig: getPrivateVolumePath(), getHostWorkspacePath(),
\* isGUIEnable(), getDevices(). The workspace may be the private volume
\* itself (both paths "/priv") or a directory of its own.
Configs ==
    { [privateVolumePath |-> v, hostWorkspacePath |-> p, gui |-> g, devices |-> d] :
        v \in {<<>>, PATH_priv},
        p \in {PATH_wsl_p, PATH_bwsl_p, PATH_wsl, PATH_home, PATH_priv},
        g \in BOOLEAN, d \in DeviceLists }

FsStates == { [exists |-> TRUE, entries |-> e] : e \in SUBSET Files }
            \cup { [exists |-> FALSE, entries |-> {}] }

\* Output chunks of an exec stream: "ok", "id", "#3", ... and one chunk that
\* is not valid UTF-8
Chunk(i) == IF i = 1 THEN <<111, 107>> ELSE IF i = 2 THEN <<105, 100>> ELSE <<35, 48 + i>>

BadChunk == <<255>>

\* The stream yields n chunks, the k-th of them (if k > 0) undecodable
MkStream(n, k) == [i \in 1..n |-> IF i = k THEN BadChunk ELSE Chunk(i)]

\* Commands given to exec: ["ls", "-la", "/root"] and ["id"]
Commands == { << <<"l","s">>, <<"-","l","a">>, <<"/","r","o","o","t">> >>,
              << <<"i","d">> >> }

\* Tokens of the commands given to formatShellCommand alone: "", "a", "id",
\* "-la", "a b", "~/{}" (encoded lengths of every padding class, a token
\* holding a space, the ends of the printable range)
FormatTokens ==
    { <<>>, <<"a">>, <<"i","d">>, <<"-","l","a">>, <<"a"," ","b">>, <<"~","/","{","}">> }

FormatCommands == UNION { [1..n -> FormatTokens] : n \in 0..MaxTokens }

\* The inputs of one operation that come from its environment
DefEnv ==
    [vanishAt |-> 0, faultAt |-> 0, typed |-> "", listFault |-> "none",
     rmFault |-> "none", survivors |-> {}, quiet |-> FALSE, stream |-> <<>>,
     cut |-> [at |-> 0, kind |-> "none"]]

\* The environment's choices for the runtime calls of an operation that
\* issues at most n of them: nothing happens, or the container is deleted
\* out-of-band just before the k-th call, or the daemon fails at the k-th
\* call. (A call that finds the container deleted or the daemon failing is
\* the operation's last runtime call, so one event per operation is general.)
RtEnvs(n) ==
    {DefEnv} \cup { [DefEnv EXCEPT !.vanishAt = k] : k \in 1..n }
             \cup { [DefEnv EXCEPT !.faultAt = k] : k \in 1..n }

\* The environment's choices for the filesystem calls of __removeVolume:
\* what the operator types if asked, and whether os.listdir or shutil.rmtree
\* fails (a failing rmtree leaves the entries in sv)
FsEnvs(env) ==
    { [env EXCEPT !.typed = t] : t \in {"", "y", "n"} }
    \cup { [env EXCEPT !.listFault = f] : f \in {"PermissionError", "OSError"} }
    \cup { [env EXCEPT !.typed = t, !.rmFault = f, !.survivors = sv] :
             t \in {"", "y"}, f \in {"PermissionError", "OSError"}, sv \in SUBSET Files }

\* The environment's choices for a foreground exec: the stream of n chunks
\* ends normally, or its i-th read is interrupted by the operator or fails,
\* or its i-th chunk does not decode
StreamEnvs(env) ==
    { [env EXCEPT !.stream = MkStream(n, 0)] : n \in 0..MaxChunks }
    \cup { [env EXCEPT !.stream = MkStream(n, 0), !.cut = [at |-> i, kind |-> k]] :
             n \in 0..MaxChunks, i \in 1..(MaxChunks + 1),
             k \in {"KeyboardInterrupt", "ConnectionError"} }
    \cup { [env EXCEPT !.stream = MkStream(n, i)] : n \in 1..MaxChunks, i \in 1..MaxChunks }

World(env) ==
    [rt |-> rt, attrs |-> attrs, fs |-> fs, calls |-> <<>>, fscalls |-> <<>>,
     hostcmds |-> <<>>,
     entered |-> <<>>, prompts |-> <<>>, log |-> <<>>, exc |-> "none", env |-> env]

Op(name, h) ==
    [name |-> name, h |-> h, timeout |-> 0, command |-> <<>>, as_daemon |-> FALSE,
     stream |-> <<>>, shell |-> <<>>]

\* No operation's outcome is pending: the caller may call the next one
Idle == op.name = "idle"

\* The operation o ended in world w, returning v
Finish(w, o, v) ==
    /\ rt' = w.rt
    /\ attrs' = w.attrs
    /\ fs' = w.fs
    /\ calls' = w.calls
    /\ fscalls' = w.fscalls
    /\ hostcmds' = w.hostcmds
    /\ entered' = w.entered
    /\ prompts' = w.prompts
    /\ log' = w.log
    /\ exc' = w.exc
    /\ ret' = IF Raised(w) THEN <<>> ELSE v
    /\ op' = o
    /\ pre' = [rt |-> rt, fs |-> fs]
    /\ UNCHANGED config

\* ------------------------------------------------------------------ actions
Init ==
    /\ rt \in { [exists |-> TRUE, attrs |-> a] : a \in AllAttrs }
    /\ attrs = [h \in Handles |-> rt.attrs]
    /\ fs \in FsStates
    /\ config \in Configs
    /\ op = Op("idle", "h1")
    /\ pre = [rt |-> rt, fs |-> fs]
    /\ calls = <<>>
    /\ fscalls = <<>>
    /\ hostcmds = <<>>
    /\ entered = <<>>
    /\ prompts = <<>>
    /\ log = <<>>
    /\ exc = "none"
    /\ ret = <<>>

GetRawStatus(h) ==
    /\ Idle
    /\ \E env \in RtEnvs(1) :
        \E r \in {getRawStatus(World(env), h)} :
            Finish(r.w, Op("getRawStatus", h), <<r.v>>)

GetTextStatus(h) ==
    /\ Idle
    /\ \E env \in RtEnvs(1) :
        \E r \in {getTextStatus(World(env), h)} :
            Finish(r.w, Op("getTextStatus", h), <<r.v>>)

IsRunning(h) ==
    /\ Idle
    /\ \E env \in RtEnvs(1) :
        \E r \in {isRunning(World(env), h)} :
            Finish(r.w, Op("isRunning", h), <<r.v>>)

Start(h) ==
    /\ Idle
    /\ \E env \in RtEnvs(2) :
        \E w \in {start(World(env), h)} :
            Finish(w, Op("start", h), <<>>)

Stop(h) ==
    /\ Idle
    /\ \E env \in RtEnvs(2), timeout \in {DefaultStopTimeout, RemoveStopTimeout} :
        \E w \in {stop(World(env), h, timeout)} :
            Finish(w, [Op("stop", h) EXCEPT !.timeout = timeout], <<>>)

Remove(h) ==
    /\ Idle
    /\ \E env0 \in RtEnvs(3) : \E env \in FsEnvs(env0) :
        \E w \in {remove(World(env), h, config)} :
            Finish(w, Op("remove", h), <<>>)

Exec(h) ==
    /\ Idle
    /\ \E env0 \in RtEnvs(4), command \in Commands, quiet \in BOOLEAN :
         \/ \E w \in {exec(World([env0 EXCEPT !.quiet = quiet]), h, command, TRUE)} :
              Finish(w, [Op("exec", h) EXCEPT !.command = command, !.as_daemon = TRUE], <<>>)
         \/ \E env \in StreamEnvs([env0 EXCEPT !.quiet = quiet]) :
              /\ env.cut.at <= Len(env.stream) + 1
              /\ \E w \in {exec(World(env), h, command, FALSE)} :
                   Finish(w, [Op("exec", h) EXCEPT !.command = command,
                                                  !.stream = env.stream], <<>>)

FormatShellCommand(h) ==
    /\ Idle
    /\ \E command \in FormatCommands :
        \E r \in {formatShellCommandCall(World(DefEnv), command)} :
            Finish(r.w, [Op("formatShellCommand", h) EXCEPT !.command = command], <<r.v>>)

SpawnShell(h) ==
    /\ Idle
    /\ \E shell \in Shells :
        \E w \in {spawnShell(World(DefEnv), h, config, shell)} :
            Finish(w, [Op("spawnShell", h) EXCEPT !.shell = shell], <<>>)

\* The caller has taken the outcome of the last operation
Return ==
    /\ ~Idle
    /\ op' = Op("idle", "h1")
    /\ pre' = [rt |-> rt, fs |-> fs]
    /\ calls' = <<>>
    /\ fscalls' = <<>>
    /\ hostcmds' = <<>>
    /\ entered' = <<>>
    /\ prompts' = <<>>
    /\ log' = <<>>
    /\ exc' = "none"
    /\ ret' = <<>>
    /\ UNCHANGED <<rt, attrs, fs, config>>

\* The container changes state out-of-band (another client, the daemon)
EnvSetStatus ==
    /\ Idle
    /\ rt.exists
    /\ \E a \in AllAttrs : a # rt.attrs /\ rt' = [rt EXCEPT !.attrs = a]
    /\ pre' = [rt |-> rt', fs |-> fs]
    /\ UNCHANGED <<attrs, fs, config, op, calls, fscalls, hostcmds, entered, prompts, log,
                   exc, ret>>

\* The container is deleted out-of-band
EnvDelete ==
    /\ Idle
    /\ rt.exists
    /\ rt' = [rt EXCEPT !.exists = FALSE]
    /\ pre' = [rt |-> rt', fs |-> fs]
    /\ UNCHANGED <<attrs, fs, config, op, calls, fscalls, hostcmds, entered, prompts, log,
                   exc, ret>>

\* The private volume directory changes on the host
EnvFs ==
    /\ Idle
    /\ \E f \in FsStates : f # fs /\ fs' = f
    /\ pre' = [rt |-> rt, fs |-> fs']
    /\ UNCHANGED <<rt, attrs, config, op, calls, fscalls, hostcmds, entered, prompts, log,
                   exc, ret>>

Next ==
    \/ \E h \in Handles : GetRawStatus(h)
    \/ \E h \in Handles : GetTextStatus(h)
    \/ \E h \in Handles : IsRunning(h)
    \/ \E h \in Handles : Start(h)
    \/ \E h \in Handles : Stop(h)
    \/ \E h \in Handles : Remove(h)
    \/ \E h \in Handles : Exec(h)
    \/ \E h \in Handles : FormatShellCommand(h)
    \/ \E h \in Handles : SpawnShell(h)
    \/ Return
    \/ EnvSetStatus
    \/ EnvDelete
    \/ EnvFs

Spec == Init /\ [][Next]_vars

\* The status, start/stop and exec operations, which read neither the
\* configuration nor the host filesystem: both are held at one value
InitHandle ==
    /\ Init
    /\ config = [privateVolumePath |-> <<>>, hostWorkspacePath |-> PATH_home,
                 gui |-> FALSE, devices |-> <<>>]
    /\ fs = [exists |-> FALSE, entries |-> {}]

NextHandle ==
    \/ \E h \in Handles : GetRawStatus(h)
    \/ \E h \in Handles : GetTextStatus(h)
    \/ \E h \in Handles : IsRunning(h)
    \/ \E h \in Handles : Start(h)
    \/ \E h \in Handles : Stop(h)
    \/ \E h \in Handles : Exec(h)
    \/ Return
    \/ EnvSetStatus
    \/ EnvDelete

SpecHandle == InitHandle /\ [][NextHandle]_vars

\* remove() under every configuration, directory state and container state
NextRemove ==
    \/ \E h \in Handles : Remove(h)
    \/ Return
    \/ EnvSetStatus
    \/ EnvDelete
    \/ EnvFs

\* remove() reads neither the GUI flag nor the shared devices: both are held
\* at one value
InitRemove ==
    /\ Init
    /\ ~config.gui
    /\ config.devices = <<>>

SpecRemove == InitRemove /\ [][NextRemove]_vars

\* formatShellCommand alone, which reads nothing of the handle's state: the
\* container is held running
InitFormat ==
    /\ InitHandle
    /\ rt = [exists |-> TRUE, attrs |-> Attrs(StateDict(STR_running))]

NextFormat ==
    \/ \E h \in Handles : FormatShellCommand(h)
    \/ Return

SpecFormat == InitFormat /\ [][NextFormat]_vars

\* spawnShell() under every GUI flag, device list and container state; it
\* reads neither the private volume path nor the directory
InitShell ==
    /\ Init
    /\ config.privateVolumePath = <<>>
    /\ fs = [exists |-> FALSE, entries |-> {}]

NextShell ==
    \/ \E h \in Handles : SpawnShell(h)
    \/ Return
    \/ EnvSetStatus
    \/ EnvDelete

SpecShell == InitShell /\ [][NextShell]_vars

\* Every operation that touches the host (remove, spawnShell) next to the
\* status, start, stop and exec operations, from a container that runs or
\* has exited
InitDelete ==
    /\ InitRemove
    /\ rt.attrs \in {Attrs(StateDict(STR_running)), Attrs(StateDict(STR_exited))}

NextDelete ==
    \/ \E h \in Handles : GetRawStatus(h)
    \/ \E h \in Handles : GetTextStatus(h)
    \/ \E h \in Handles : IsRunning(h)
    \/ \E h \in Handles : Start(h)
    \/ \E h \in Handles : Stop(h)
    \/ \E h \in Handles : Exec(h)
    \/ \E h \in Handles : SpawnShell(h)
    \/ \E h \in Handles : Remove(h)
    \/ Return
    \/ EnvFs

SpecDelete == InitDelete /\ [][NextDelete]_vars

\* ================================================================== claims
\* Names of the requests the last operation issued (stream reads left out)
Requests == SelectSeq(calls, LAMBDA c : c.req # "next")

ReqNames == [i \in 1..Len(Requests) |-> Requests[i].req]

Requested(name) == \E i \in 1..Len(calls) : calls[i].req = name

Entered(method) == \E i \in 1..Len(entered) : entered[i].method = method

FsCalled(call) == \E i \in 1..Len(fscalls) : fscalls[i].call = call

HasLog(level, msg) == \E i \in 1..Len(log) : log[i].level = level /\ log[i].msg = msg

\* The runtime's status field, "unknown" standing for a missing one
StatusAbsent(r) == ~r.attrs.hasState \/ ~r.attrs.State.has

RtStatus(r) == IF StatusAbsent(r) THEN STR_unknown ELSE r.attrs.State.Status

\* The container was running when the operation was called
WasRunning == pre.rt.exists /\ RtStatus(pre.rt) = STR_running

\* --- C1 ---------------------------------------------------------------
\* C1: remove() on a handle whose container was already deleted out-of-band
\* (every runtime call signals not-found) completes without raising and
\* still enters volume reclamation.
C1_RemoveOfDeletedCompletes ==
    ( /\ op.name = "remove"
      /\ ~pre.rt.exists
      /\ \A i \in 1..Len(calls) : calls[i].outcome = "NotFound" )
    => ( exc = "none" /\ Entered("__removeVolume") )

\* --- C2 ---------------------------------------------------------------
\* C2: start() on a running container and stop() on a container that is not
\* running issue the status re-query and nothing else, and leave the
\* container's state as it was.
C2_NoRequestWhenNothingToDo ==
    /\ (op.name = "start" /\ WasRunning)
         => (ReqNames = <<"reload">> /\ rt.attrs = pre.rt.attrs)
    /\ (op.name = "stop" /\ pre.rt.exists /\ RtStatus(pre.rt) # STR_running)
         => (ReqNames = <<"reload">> /\ rt.attrs = pre.rt.attrs)

C2_Witness ==
    /\ op.name = "start"
    /\ WasRunning
    /\ exc = "none"
    /\ ReqNames = <<"reload">>
    /\ calls[1].outcome = "ok"

\* --- C3 ---------------------------------------------------------------
DirEmpty == pre.fs.exists /\ pre.fs.entries = {}

DirNonEmpty == pre.fs.exists /\ pre.fs.entries # {}

Asked == prompts # <<>>

Confirmed == Asked /\ prompts[Len(prompts)].answer

Declined == Asked /\ ~prompts[Len(prompts)].answer

\* C3: with a private volume path whose directory is not empty, a declined
\* confirmation leaves the directory and its contents unchanged, and the
\* deletion-success line is not logged.
C3_DeclinedKeepsDirectory ==
    ( /\ op.name = "remove"
      /\ config.privateVolumePath # <<>>
      /\ DirNonEmpty
      /\ Declined )
    => ( /\ fs = pre.fs
         /\ ~FsCalled("rmtree")
         /\ ~HasLog("success", "Private workspace volume removed successfully")
         /\ exc = "none" )

C3_Witness ==
    /\ op.name = "remove"
    /\ config.privateVolumePath # <<>>
    /\ DirNonEmpty
    /\ Declined
    /\ prompts[1].default = FALSE
    /\ fs = pre.fs

\* --- C4 ---------------------------------------------------------------
\* Volume reclamation ran with a private volume path
Reclaiming ==
    op.name = "remove" /\ Entered("__removeVolume") /\ config.privateVolumePath # <<>>

ListedOk == fscalls # <<>> /\ fscalls[1].call = "listdir" /\ fscalls[1].outcome = "ok"

\* C4 as stated: rmtree is requested exactly when the directory is empty or
\* the operator confirmed, and the operator is asked exactly when the
\* directory is not empty.
C4_DeleteIffEmptyOrConfirmed ==
    Reclaiming =>
        /\ FsCalled("rmtree") <=> (DirEmpty \/ Confirmed)
        /\ Asked <=> DirNonEmpty

\* C4 as amended: that holds when the listing of the directory succeeds; when
\* the listing fails (permission denied, directory missing, other error),
\* the operator is not asked and nothing is deleted. rmtree is only ever
\* requested on the private volume path.
C4_DeleteIffListedEmptyOrConfirmed ==
    Reclaiming =>
        /\ ListedOk =>
             /\ FsCalled("rmtree") <=> (DirEmpty \/ Confirmed)
             /\ Asked <=> DirNonEmpty
        /\ ~ListedOk => (~FsCalled("rmtree") /\ ~Asked)
        /\ \A i \in 1..Len(fscalls) : fscalls[i].path = config.privateVolumePath

C4_Witness ==
    /\ Reclaiming
    /\ DirNonEmpty
    /\ Confirmed
    /\ FsCalled("rmtree")
    /\ ~fs.exists

\* --- C5 ---------------------------------------------------------------
\* C5: with an empty private volume path and a host workspace path that
\* begins with a bridge prefix ('/wsl/' or '\\wsl\\'), volume reclamation
\* makes no filesystem call, asks nothing, and logs the warning.
C5_BridgePathNeverDeleted ==
    ( /\ op.name = "remove"
      /\ Entered("__removeVolume")
      /\ config.privateVolumePath = <<>>
      /\ config.hostWorkspacePath \in {PATH_wsl_p, PATH_bwsl_p} )
    => ( /\ fscalls = <<>>
         /\ prompts = <<>>
         /\ fs = pre.fs
         /\ HasLog("warning", "WSL workspace directory cannot be removed automatically") )

C5_Witness ==
    /\ op.name = "remove"
    /\ Entered("__removeVolume")
    /\ config.privateVolumePath = <<>>
    /\ config.hostWorkspacePath = PATH_wsl_p
    /\ HasLog("warning", "WSL workspace directory cannot be removed automatically")

\* --- C6 ---------------------------------------------------------------
\* The order of remove(): the status re-query, the stop request (timeout 2)
\* exactly when the container is running, then the deletion request; volume
\* reclamation is entered only after the deletion request.
RemoveOrder ==
    /\ ReqNames \in { <<"reload">>, <<"reload", "stop">>, <<"reload", "remove">>,
                      <<"reload", "stop", "remove">> }
    /\ \A i \in 1..Len(calls) :
         calls[i].req = "stop" => (calls[i].timeout = 2 /\ WasRunning)
    /\ (WasRunning /\ calls[1].outcome = "ok") => Requested("stop")
    /\ \A j \in 1..Len(entered) :
         entered[j].method = "__removeVolume"
            => (entered[j].ncalls = Len(calls) /\ calls[Len(calls)].req = "remove")
    /\ fscalls # <<>> => Entered("__removeVolume")

\* C6 as stated: that order, and volume reclamation is entered whatever the
\* outcome of the deletion request.
C6_ReclaimWhateverDeletionOutcome ==
    op.name = "remove" =>
        /\ RemoveOrder
        /\ Requested("remove") => Entered("__removeVolume")

\* C6 as amended: that order, and volume reclamation is entered exactly when
\* the deletion request succeeded or signalled not-found; any other failure
\* of the deletion request is raised to the caller and reclamation is skipped.
C6_ReclaimAfterDeletionOrNotFound ==
    op.name = "remove" =>
        /\ RemoveOrder
        /\ Entered("__removeVolume")
             <=> \E i \in 1..Len(calls) :
                    calls[i].req = "remove" /\ calls[i].outcome \in {"ok", "NotFound"}
        /\ \A i \in 1..Len(calls) :
             (calls[i].req = "remove" /\ calls[i].outcome \notin {"ok", "NotFound"})
                => exc = calls[i].outcome

C6_Witness ==
    /\ op.name = "remove"
    /\ ReqNames = <<"reload", "stop", "remove">>
    /\ calls[3].outcome = "NotFound"
    /\ Entered("__removeVolume")
    /\ HasLog("error", "The container has already been removed")
    /\ exc = "none"

\* --- C7 ---------------------------------------------------------------
\* C7: every failure of a filesystem call of volume reclamation is absorbed
\* (remove() does not raise) and is the last thing logged: a warning for
\* PermissionError, an error carrying the exception otherwise.
C7_ReclaimFailuresAbsorbedAndLogged ==
    (op.name = "remove" /\ Entered("__removeVolume")) =>
        /\ exc = "none"
        /\ \A i \in 1..Len(fscalls) :
             fscalls[i].outcome # "ok" =>
                /\ i = Len(fscalls)
                /\ log # <<>>
                /\ IF fscalls[i].outcome = "PermissionError"
                   THEN /\ log[Len(log)].level = "warning"
                        /\ log[Len(log)].msg = "I don't have the rights to remove"
                   ELSE /\ log[Len(log)].level = "error"
                        /\ log[Len(log)].text = <<fscalls[i].outcome>>

C7_Witness ==
    /\ op.name = "remove"
    /\ FsCalled("rmtree")
    /\ fscalls[Len(fscalls)].outcome = "OSError"
    /\ exc = "none"
    /\ log[Len(log)].level = "error"

\* --- C8 ---------------------------------------------------------------
RuntimeFailures == {"NotFound", "APIError", "ConnectionError"}

\* A runtime call of start(), stop() or exec() failed
RuntimeCallFailed ==
    /\ op.name \in {"start", "stop", "exec"}
    /\ \E i \in 1..Len(calls) : calls[i].outcome \in RuntimeFailures

\* C8 as stated: the failure is raised to the caller, and the operation has
\* logged no line of level success.
C8_FailureSurfacesNoSuccessLine ==
    RuntimeCallFailed =>
        /\ exc = calls[Len(calls)].outcome
        /\ exc \in RuntimeFailures
        /\ \A j \in 1..Len(log) : log[j].level # "success"

\* C8 as amended: the failure is raised to the caller, and neither completion
\* line ("Command successfully executed in background", "End of the command")
\* is logged; the only line of level success an exec() that fails at or
\* after its request has logged is formatShellCommand's "Command received".
C8_FailureSurfacesNoCompletionLine ==
    RuntimeCallFailed =>
        /\ exc = calls[Len(calls)].outcome
        /\ exc \in RuntimeFailures
        /\ \A i \in 1..(Len(calls) - 1) : calls[i].outcome \notin RuntimeFailures
        /\ \A j \in 1..Len(log) :
             log[j].level = "success"
                => (log[j].msg = "Command received" /\ Requested("exec_run"))

C8_Witness ==
    /\ op.name = "exec"
    /\ calls[Len(calls)].req = "next"
    /\ calls[Len(calls)].outcome = "ConnectionError"
    /\ exc = "ConnectionError"
    /\ HasLog("raw", "output")

\* --- C9 ---------------------------------------------------------------
\* C9: every status query reloads the container's attributes and returns
\* the runtime's status as it is when the query is made, whatever the handle
\* loaded before and whatever happened to the container since.
C9_StatusIsLive ==
    (op.name \in {"getRawStatus", "getTextStatus", "isRunning"} /\ exc = "none") =>
        /\ ReqNames = <<"reload">>
        /\ attrs[op.h] = pre.rt.attrs
        /\ op.name = "getRawStatus" => ret = <<RtStatus(pre.rt)>>
        /\ op.name = "isRunning" => ret = <<RtStatus(pre.rt) = STR_running>>
        /\ op.name = "getTextStatus" => ret = <<TextOfStatus(RtStatus(pre.rt))>>

C9_Witness ==
    /\ op.name = "isRunning"
    /\ op.h = "h2"
    /\ exc = "none"
    /\ ret = <<TRUE>>
    /\ attrs["h1"] = Attrs(StateDict(STR_exited))
    /\ rt.attrs = Attrs(StateDict(STR_running))

\* --- C10 --------------------------------------------------------------
\* C10 as stated: getTextStatus() gives the "Unknown" display for an absent
\* status and for every status that is none of running, exited, unknown.
C10_UnrecognizedIsUnknown ==
    (op.name = "getTextStatus" /\ exc = "none") =>
        ( (StatusAbsent(pre.rt)
             \/ RtStatus(pre.rt) \notin {STR_running, STR_Running_cap, STR_exited, STR_unknown})
          => ret = <<TXT_Unknown>> )

\* C10 as amended: getTextStatus() always gives a string: the "Unknown"
\* display for an absent status, the "Running" and "Stopped" displays for
\* running and exited in any letter case, and for any other status the raw
\* status itself in lower case.
C10_TextMappingTotal ==
    (op.name = "getTextStatus" /\ exc = "none") =>
        /\ Len(ret) = 1
        /\ StatusAbsent(pre.rt) => ret[1] = TXT_Unknown
        /\ ~StatusAbsent(pre.rt) =>
             /\ RtStatus(pre.rt) \in {STR_running, STR_Running_cap} => ret[1] = TXT_Running
             /\ RtStatus(pre.rt) = STR_exited => ret[1] = TXT_Stopped
             /\ RtStatus(pre.rt) \in {STR_paused, STR_PAUSED_cap} => ret[1] = STR_paused

C10_Witness ==
    /\ op.name = "getTextStatus"
    /\ exc = "none"
    /\ ~StatusAbsent(pre.rt)
    /\ RtStatus(pre.rt) = STR_PAUSED_cap
    /\ ret = <<STR_paused>>

\* --- C11 --------------------------------------------------------------
\* Positions of the requests of the given name among the operation's requests
ReqIndexes(name) == { i \in 1..Len(Requests) : Requests[i].req = name }

\* No runtime call before the operation's exec request has failed: the
\* operation got as far as that request
ReachedExecRequest ==
    \A i \in 1..Len(Requests) :
        Requests[i].outcome # "ok" => Requests[i].req = "exec_run"

\* C11: exec() on a container that is not running issues a start request
\* before its exec request, and on a running container issues no start
\* request; an exec() that no runtime failure stops beforehand issues
\* exactly one exec request, in either mode, whose command is
\* formatShellCommand's output for the given tokens (never more than one).
C11_StartBeforeExecRequest ==
    op.name = "exec" =>
        /\ Cardinality(ReqIndexes("exec_run")) <= 1
        /\ WasRunning => ReqIndexes("start") = {}
        /\ \A i \in ReqIndexes("exec_run") :
              /\ Requests[i].cmd = formatShellCommand(op.command)
              /\ Requests[i].detach = op.as_daemon
              /\ ~WasRunning =>
                    \E j \in ReqIndexes("start") : j < i /\ Requests[j].outcome = "ok"
        /\ ReachedExecRequest =>
              /\ Cardinality(ReqIndexes("exec_run")) = 1
              /\ Cardinality(ReqIndexes("start")) = (IF WasRunning THEN 0 ELSE 1)

C11_Witness ==
    /\ op.name = "exec"
    /\ pre.rt.exists
    /\ RtStatus(pre.rt) = STR_exited
    /\ ReqNames = <<"reload", "reload", "start", "exec_run">>
    /\ Requests[4].cmd = formatShellCommand(<< <<"i","d">> >>)
    /\ exc = "none"
    /\ RtStatus(rt) = STR_running

\* --- C12 --------------------------------------------------------------
\* What the operation wrote to the output sink (logger.raw), in order
Sink == SelectSeq(log, LAMBDA l : l.level = "raw")

\* The reads of the output stream, in order
Reads == SelectSeq(calls, LAMBDA c : c.req = "next")

\* Chunks the stream delivered to the operation
Received == { i \in 1..Len(Reads) : Reads[i].outcome = "ok" }

Foreground == op.name = "exec" /\ ~op.as_daemon

\* C12: a foreground exec() writes the decoded chunks to the sink in arrival
\* order, each one before the next read: whenever it ends (stream ended, cut
\* at any read, failure), the sink holds the first chunks of the stream, one
\* per chunk received (less a last chunk that does not decode); when the
\* stream ends without cancellation the sink holds every chunk and the
\* end-of-command success line is the last line logged.
C12_SinkIsPrefixOfStream ==
    Foreground =>
        /\ Len(Sink) <= Len(op.stream)
        /\ \A i \in 1..Len(Sink) : Sink[i].text = DecodeUtf8(op.stream[i])
        /\ Received = 1..Cardinality(Received)
        /\ Len(Sink) = Cardinality(Received) - (IF exc = "UnicodeDecodeError" THEN 1 ELSE 0)
        /\ (Reads # <<>> /\ Reads[Len(Reads)].outcome = "end") =>
              /\ exc = "none"
              /\ Len(Sink) = Len(op.stream)
              /\ log[Len(log)] = [level |-> "success", msg |-> "End of the command", text |-> <<>>]
              /\ log[Len(log) - 1].level = "raw" \/ op.stream = <<>>
        /\ HasLog("success", "End of the command") =>
              (Reads # <<>> /\ Reads[Len(Reads)].outcome = "end")

C12_Witness ==
    /\ Foreground
    /\ Len(op.stream) = 2
    /\ Len(Reads) = 3
    /\ Reads[3].outcome = "end"
    /\ Len(Sink) = 2
    /\ Sink[1].text = <<"o","k">>
    /\ Sink[2].text = <<"i","d">>
    /\ log[Len(log)].msg = "End of the command"

\* --- C13 --------------------------------------------------------------
\* The operator interrupted the operation while it was reading the stream
Interrupted == \E i \in 1..Len(Reads) : Reads[i].outcome = "KeyboardInterrupt"

\* C13: a foreground exec() interrupted by the operator while streaming
\* reads nothing more, issues no request to the runtime after its exec
\* request (no stop, no kill: the container stays as the exec request left
\* it), logs the notice that the process keeps running, returns without
\* raising and does not log the end-of-command success line.
C13_InterruptDetachesOnly ==
    (Foreground /\ Interrupted) =>
        /\ calls[Len(calls)].req = "next"
        /\ calls[Len(calls)].outcome = "KeyboardInterrupt"
        /\ \A i \in 1..(Len(Reads) - 1) : Reads[i].outcome = "ok"
        /\ \A i \in 1..Len(Requests) : Requests[i].req \in {"reload", "start", "exec_run"}
        /\ Requests[Len(Requests)].req = "exec_run"
        /\ rt.exists
        /\ RtStatus(rt) = STR_running
        /\ Len(log) >= 2
        /\ log[Len(log) - 1] = [level |-> "info", msg |-> "Detaching process logging",
                                text |-> <<>>]
        /\ log[Len(log)] = [level |-> "warning", text |-> <<>>,
                            msg |-> "Exiting this command do NOT stop the process in the container"]
        /\ exc = "none"
        /\ ~HasLog("success", "End of the command")

C13_Witness ==
    /\ Foreground
    /\ Len(op.stream) = 2
    /\ Len(Reads) = 2
    /\ Reads[2].outcome = "KeyboardInterrupt"
    /\ Len(Sink) = 1
    /\ exc = "none"
    /\ HasLog("warning", "Exiting this command do NOT stop the process in the container")
    /\ RtStatus(rt) = STR_running

\* --- C14 --------------------------------------------------------------
Detached == op.name = "exec" /\ op.as_daemon

BackgroundLine ==
    [level |-> "success", msg |-> "Command successfully executed in background",
     text |-> <<>>]

\* C14: a detached exec() issues its exec request with detach set and no
\* output stream, reads nothing and writes nothing to the sink; when the
\* request is accepted, it is the operation's last call, the
\* background-success line is the last line logged and exec() returns
\* without raising; the line is logged in no other case.
C14_DetachedReadsNothing ==
    Detached =>
        /\ Reads = <<>>
        /\ Sink = <<>>
        /\ ~HasLog("success", "End of the command")
        /\ \A i \in ReqIndexes("exec_run") :
              /\ Requests[i].detach
              /\ ~Requests[i].stream
              /\ i = Len(calls)
              /\ Requests[i].outcome = "ok" =>
                    (exc = "none" /\ log[Len(log)] = BackgroundLine)
        /\ HasLog(BackgroundLine.level, BackgroundLine.msg) =>
              (calls # <<>> /\ calls[Len(calls)].req = "exec_run"
                            /\ calls[Len(calls)].outcome = "ok")

C14_Witness ==
    /\ Detached
    /\ ReqNames = <<"reload", "exec_run">>
    /\ Requests[2].detach
    /\ ~Requests[2].stream
    /\ exc = "none"
    /\ log[Len(log)] = BackgroundLine

\* --- C15 --------------------------------------------------------------
\* The string formatShellCommand returned, and what it holds between the
\* fixed head and the fixed tail of the command line
Formatted == ret[1]

Payload == SubSeq(Formatted, Len(ZSH_prefix) + 1, Len(Formatted) - Len(ZSH_suffix))

\* What base64 -d prints for the payload, read as UTF-8
Decoded == DecodeUtf8(B64Decode(Payload))

RECURSIVE TokenStart(_, _)
\* Characters before the i-th token in the tokens joined by single spaces
TokenStart(tokens, i) ==
    IF i = 1 THEN 0 ELSE TokenStart(tokens, i - 1) + Len(tokens[i - 1]) + 1

\* C15: for every token sequence, the string formatShellCommand returns is
\* zsh -c "source /opt/.zsh_aliases; eval $(echo <encoded> | base64 -d)",
\* where <encoded> is well-formed base64 whose decoding, read as UTF-8, is
\* the tokens joined by single spaces.
C15_PayloadRoundTrip ==
    (op.name = "formatShellCommand" /\ exc = "none") =>
        /\ Len(ret) = 1
        /\ Len(Formatted) >= Len(ZSH_prefix) + Len(ZSH_suffix)
        /\ SubSeq(Formatted, 1, Len(ZSH_prefix)) = ZSH_prefix
        /\ SubSeq(Formatted, Len(Formatted) - Len(ZSH_suffix) + 1, Len(Formatted)) = ZSH_suffix
        /\ B64Valid(Payload)
        /\ Utf8Valid(B64Decode(Payload))
        /\ Decoded = Join(op.command)
        /\ Len(Decoded) = (IF op.command = <<>> THEN 0
                           ELSE TokenStart(op.command, Len(op.command) + 1) - 1)
        /\ \A i \in 1..Len(op.command) :
              /\ SubSeq(Decoded, TokenStart(op.command, i) + 1,
                        TokenStart(op.command, i) + Len(op.command[i])) = op.command[i]
              /\ i > 1 => Decoded[TokenStart(op.command, i)] = " "

C15_Witness ==
    /\ op.name = "formatShellCommand"
    /\ op.command = << <<"a"," ","b">>, <<>>, <<"~","/","{","}">> >>
    /\ Payload = <<"Y","S","B","i","I","C","B","+","L","3","t","9">>
    /\ Decoded = <<"a"," ","b"," "," ","~","/","{","}">>

\* --- C16 --------------------------------------------------------------
\* The command lines that grant X11 access, and those that attach a shell
IsGrant(c) == StartsWith(c, XHOST_prefix)

IsAttach(c) == StartsWith(c, DOCKER_EXEC)

\* C16: spawnShell() runs 'xhost +local:<hostname> > /dev/null' for the
\* container's hostname exactly when the configuration enables the GUI, and
\* before the attach; in every case its last host command, and its only
\* attach, is 'docker exec -ti <id> <shell>' with the shell as configured,
\* not wrapped by formatShellCommand; it issues no runtime request.
C16_GrantIffGuiThenAttachOnce ==
    op.name = "spawnShell" =>
        /\ exc = "none"
        /\ calls = <<>>
        /\ hostcmds = (IF config.gui
                       THEN << XHOST_prefix \o ContainerHostname \o XHOST_suffix >>
                       ELSE <<>>)
                      \o << DOCKER_EXEC \o ContainerId \o <<" ">> \o op.shell >>
        /\ Cardinality({ i \in 1..Len(hostcmds) : IsAttach(hostcmds[i]) }) = 1
        /\ (\E i \in 1..Len(hostcmds) : IsGrant(hostcmds[i])) <=> config.gui
        /\ \A i, j \in 1..Len(hostcmds) :
              (IsGrant(hostcmds[i]) /\ IsAttach(hostcmds[j])) => i < j
        /\ op.shell \in Shells
        /\ \A i \in 1..Len(hostcmds) :
              \A k \in 1..Len(hostcmds[i]) :
                 ~StartsWith(SubSeq(hostcmds[i], k, Len(hostcmds[i])), ZSH_prefix)

C16_Witness ==
    /\ op.name = "spawnShell"
    /\ config.gui
    /\ Len(hostcmds) = 2
    /\ IsGrant(hostcmds[1])
    /\ hostcmds[2] = DOCKER_EXEC \o ContainerId \o <<" ","z","s","h">>
    /\ HasLog("info", "Shared host device")
    /\ ~rt.exists

\* --- C17 --------------------------------------------------------------
\* Paths the last operation asked shutil.rmtree to delete
DeletedPaths == { fscalls[i].path : i \in { j \in 1..Len(fscalls) : fscalls[j].call = "rmtree" } }

\* Only remove() touches the host filesystem, and only at the configured
\* private volume path; with an empty private volume path it touches nothing
OnlyPrivateVolumeDeleted ==
    /\ DeletedPaths \subseteq {config.privateVolumePath}
    /\ \A i \in 1..Len(fscalls) : fscalls[i].path = config.privateVolumePath
    /\ op.name # "remove" => (fscalls = <<>> /\ fs = pre.fs)
    /\ config.privateVolumePath = <<>> => (fscalls = <<>> /\ prompts = <<>> /\ fs = pre.fs)
    /\ fs # pre.fs => DeletedPaths # {}

\* C17 as stated: the only path any operation deletes is the configured
\* private volume path, nothing is deleted when that path is empty whatever
\* the workspace host path, and the workspace host path is never deleted.
C17_WorkspacePathNeverDeleted ==
    /\ OnlyPrivateVolumeDeleted
    /\ config.hostWorkspacePath \notin DeletedPaths

\* C17 as amended: the only path any operation deletes is the configured
\* private volume path, nothing is deleted when that path is empty whatever
\* the workspace host path, and the workspace host path is deleted only
\* when it is itself the configured private volume path.
C17_WorkspaceDeletedOnlyAsPrivateVolume ==
    /\ OnlyPrivateVolumeDeleted
    /\ config.hostWorkspacePath \in DeletedPaths =>
          /\ config.hostWorkspacePath = config.privateVolumePath
          /\ config.privateVolumePath # <<>>
          /\ op.name = "remove"
          /\ DirEmpty \/ Confirmed

C17_Witness ==
    /\ op.name = "remove"
    /\ config.privateVolumePath = PATH_priv
    /\ config.hostWorkspacePath = PATH_priv
    /\ DirNonEmpty
    /\ Confirmed
    /\ DeletedPaths = {PATH_priv}
    /\ ~fs.exists

\* --- C18 --------------------------------------------------------------
\* The handle and its collaborators as they were when the last operation
\* was called, and as they are now, with nothing going wrong
WorldBefore == [World(DefEnv) EXCEPT !.rt = pre.rt, !.fs = pre.fs]

WorldNow == World(DefEnv)

\* The operation's first status re-query was answered
FirstReloadOk == calls # <<>> /\ calls[1].req = "reload" /\ calls[1].outcome = "ok"

\* C18: on one runtime state, isRunning() returning true implies that
\* getTextStatus() gives the "Running" display; and start(), stop() and
\* exec() decide as isRunning() answers on the state they are called in,
\* which is the exact comparison of the raw status with "running": start()
\* issues its request exactly when it is false, stop() exactly when it is
\* true, exec() calls start() exactly when it is false.
C18_RunningDecisionsAgree ==
    /\ (op.name = "isRunning" /\ exc = "none" /\ ret = <<TRUE>>) =>
          /\ getTextStatus(WorldNow, op.h).v = TXT_Running
          /\ getRawStatus(WorldNow, op.h).v = STR_running
    /\ (op.name \in {"start", "stop", "exec"} /\ FirstReloadOk) =>
          /\ isRunning(WorldBefore, op.h).v <=> (RtStatus(pre.rt) = STR_running)
          /\ op.name = "start" =>
                (Requested("start") <=> ~isRunning(WorldBefore, op.h).v)
          /\ op.name = "stop" =>
                (Requested("stop") <=> isRunning(WorldBefore, op.h).v)
          /\ op.name = "exec" =>
                /\ Entered("start") <=> ~isRunning(WorldBefore, op.h).v
                /\ Requested("stop") = FALSE

C18_Witness ==
    /\ op.name = "isRunning"
    /\ op.h = "h1"
    /\ exc = "none"
    /\ ret = <<TRUE>>
    /\ getTextStatus(WorldNow, "h2").v = TXT_Running
    /\ attrs["h2"] # rt.attrs

====
